---- MODULE Spec2Model ----
(***************************************************************************)
(* Duty-rotation bot (src/main.py): a roster of members, a nominal duty    *)
(* pointer, absences, extra activity days, all held in one JSON snapshot   *)
(* (`disk`) that every handler loads into the global `data`, mutates and   *)
(* saves.  Dates are day numbers; day 0 is a Monday.  A stored date is the *)
(* ISO string of a parsed date, which is in one-to-one correspondence with *)
(* the day number; None is the JSON null.                                  *)
(***************************************************************************)
EXTENDS Integers, Sequences, FiniteSets, TLC

\* ---- bounds of the model -------------------------------------------------
\* The last day the clock reaches.
MaxDay == 1
\* The lookahead horizon of tomorrow_duty, range(1, 366) in the source, scaled
\* to the model's calendar.
HorizonDays == 7

\* ---- input domains --------------------------------------------------------
Names == {"A", "B", "C"}
ExtraCandidates == {1}
Holidays == {2}

None == -1
BadDate == -2
NoPerson == "None"

VARIABLES disk, data, today, task, autoRotations, allAbsentSeen

vars == <<disk, data, today, task, autoRotations, allAbsentSeen>>

default_data ==
    [members |-> <<>>,
     current_duty_index |-> 0,
     last_rotation_date |-> None,
     last_bot_check_date |-> None,
     extra_activity_days |-> <<>>,
     absentees |-> [n \in {} |-> [since |-> None, until |-> None]]]

\* ---- helpers on sequences -------------------------------------------------
Range(s) == {s[i] : i \in 1..Len(s)}

IndexOf(s, x) == (CHOOSE i \in 1..Len(s) : s[i] = x /\ \A j \in 1..(i - 1) : s[j] # x) - 1

RemoveAt(s, i) == [k \in 1..(Len(s) - 1) |-> IF k < i THEN s[k] ELSE s[k + 1]]

RECURSIVE SortedSeq(_)
SortedSeq(S) ==
    IF S = {} THEN <<>>
    ELSE LET m == CHOOSE x \in S : \A y \in S : x <= y
         IN <<m>> \o SortedSeq(S \ {m})

Min2(a, b) == IF a <= b THEN a ELSE b
Max2(a, b) == IF a >= b THEN a ELSE b

\* ---- the store ------------------------------------------------------------
\* A machine state is the pair of the global `data` and the file `disk`.
load_data(m) == [m EXCEPT !.data = m.disk]

save_data(m, ok) == IF ok THEN [m EXCEPT !.disk = m.data] ELSE m

\* ---- absence helpers ------------------------------------------------------
is_member_absent(member_name, check_date, absentees_data) ==
    IF member_name \in DOMAIN absentees_data
    THEN IF absentees_data[member_name].until = None
         THEN TRUE
         ELSE IF absentees_data[member_name].until = BadDate
              THEN FALSE
              ELSE check_date <= absentees_data[member_name].until
    ELSE FALSE

\* A prune that also drops the entries ending on the date itself.
absentees_to_remove_inclusive(today_date_obj, absentees_data) ==
    {n \in DOMAIN absentees_data :
        /\ absentees_data[n].until # None
        /\ absentees_data[n].until # BadDate
        /\ today_date_obj >= absentees_data[n].until}

absentees_to_remove(today_date_obj, absentees_data) ==
    {n \in DOMAIN absentees_data :
        /\ absentees_data[n].until # None
        /\ absentees_data[n].until # BadDate
        /\ today_date_obj > absentees_data[n].until}

check_and_remove_expired_absentees(m, today_date_obj, ok) ==
    LET gone == absentees_to_remove(today_date_obj, m.data.absentees)
        kept == DOMAIN m.data.absentees \ gone
        m1 == [m EXCEPT !.data.absentees = [n \in kept |-> m.data.absentees[n]]]
    IN IF gone # {} THEN save_data(m1, ok) ELSE m

\* A scan that walks the roster backwards from the start slot.
RECURSIVE find_from_backward(_, _, _, _, _)
find_from_backward(i, start_search_idx, members_list, check_date, absentees_data) ==
    IF i >= Len(members_list) THEN None
    ELSE LET current_check_idx ==
                 (start_search_idx + i * (Len(members_list) - 1)) % Len(members_list)
         IN IF ~is_member_absent(members_list[current_check_idx + 1], check_date, absentees_data)
            THEN current_check_idx
            ELSE find_from_backward(i + 1, start_search_idx, members_list, check_date,
                                    absentees_data)

RECURSIVE find_from(_, _, _, _, _)
find_from(i, start_search_idx, members_list, check_date, absentees_data) ==
    IF i >= Len(members_list) THEN None
    ELSE LET current_check_idx == (start_search_idx + i) % Len(members_list)
         IN IF ~is_member_absent(members_list[current_check_idx + 1], check_date, absentees_data)
            THEN current_check_idx
            ELSE find_from(i + 1, start_search_idx, members_list, check_date, absentees_data)

\* A search that falls back on the start slot when nobody is available.
find_index_or_start(start_search_idx, members_list, check_date, absentees_data) ==
    IF members_list = <<>> THEN None
    ELSE LET found == find_from(0, start_search_idx, members_list, check_date, absentees_data)
         IN IF found = None THEN start_search_idx % Len(members_list) ELSE found

find_next_active_member_index(start_search_idx, members_list, check_date, absentees_data) ==
    IF members_list = <<>> THEN None
    ELSE find_from(0, start_search_idx, members_list, check_date, absentees_data)

get_actual_duty_person_for_date(target_date, nominal_duty_idx, current_data) ==
    IF current_data.members = <<>> THEN NoPerson
    ELSE LET actual_duty_idx ==
                find_next_active_member_index(nominal_duty_idx, current_data.members,
                                              target_date, current_data.absentees)
         IN IF actual_duty_idx # None
            THEN current_data.members[actual_duty_idx + 1]
            ELSE NoPerson

\* ---- calendar -------------------------------------------------------------
weekday(date_obj) == date_obj % 7

is_holiday(date_obj) == date_obj \in Holidays

\* A calendar on which every weekday is an activity day.
is_activity_day_any_weekday(date_obj, extra_activity_days) ==
    IF date_obj \in Range(extra_activity_days) THEN TRUE
    ELSE IF is_holiday(date_obj) THEN FALSE
    ELSE weekday(date_obj) \in {0, 1, 2, 3, 4}

is_activity_day(date_obj, extra_activity_days) ==
    IF date_obj \in Range(extra_activity_days) THEN TRUE
    ELSE IF is_holiday(date_obj) THEN FALSE
    ELSE weekday(date_obj) \in {0, 2, 4}

\* ---- the automatic routines' search ---------------------------------------
\* The daily search started at the current slot instead of the next one.
daily_index_from_current(d, today_date_obj) ==
    IF /\ is_activity_day(today_date_obj, d.extra_activity_days)
       /\ d.last_rotation_date # today_date_obj
       /\ d.members # <<>>
    THEN find_next_active_member_index(d.current_duty_index % Len(d.members),
                                       d.members, today_date_obj, d.absentees)
    ELSE None

\* The start-up search started at the current slot instead of the next one.
startup_idx_from_current(d, today_date_obj) ==
    IF /\ is_activity_day(today_date_obj, d.extra_activity_days)
       /\ d.last_rotation_date # today_date_obj
       /\ d.members # <<>>
    THEN find_next_active_member_index(d.current_duty_index % Len(d.members),
                                       d.members, today_date_obj, d.absentees)
    ELSE None

\* src/main.py 202-218: the index daily_update_task moves the pointer to, or
\* None when a gate is closed or nobody is available.
daily_new_duty_index(d, today_date_obj) ==
    IF is_activity_day(today_date_obj, d.extra_activity_days)
    THEN IF d.last_rotation_date # today_date_obj
         THEN IF d.members # <<>>
              THEN LET num_members == Len(d.members)
                       next_nominal_duty_index_start_search ==
                           (d.current_duty_index + 1) % num_members
                   IN find_next_active_member_index(next_nominal_duty_index_start_search,
                                                    d.members, today_date_obj, d.absentees)
              ELSE None
         ELSE None
    ELSE None

\* src/main.py 267-274: the same search in before_daily_update_task.
startup_new_idx(d, today_date_obj) ==
    IF /\ is_activity_day(today_date_obj, d.extra_activity_days)
       /\ d.last_rotation_date # today_date_obj
       /\ d.members # <<>>
    THEN LET next_nominal_idx == (d.current_duty_index + 1) % Len(d.members)
         IN find_next_active_member_index(next_nominal_idx, d.members,
                                          today_date_obj, d.absentees)
    ELSE None

\* src/main.py 224-225 and 276-277.
rotate_to(d, idx, today_date_obj) ==
    [d EXCEPT !.current_duty_index = idx, !.last_rotation_date = today_date_obj]

\* src/main.py 202-227: the advance of daily_update_task on the snapshot d.
advance_if_due(d, today_date_obj) ==
    LET actual_new_duty_index == daily_new_duty_index(d, today_date_obj)
    IN IF actual_new_duty_index # None
       THEN rotate_to(d, actual_new_duty_index, today_date_obj)
       ELSE d

Bump(n) == Min2(n + 1, 2)

Machine == [data |-> data, disk |-> disk]

Commit(m) == data' = m.data /\ disk' = m.disk

\* History: autoRotations counts the automatic advances made on `today`;
\* allAbsentSeen records that an automatic search has found every member absent.
NoRotation == UNCHANGED <<autoRotations, allAbsentSeen>>

\* The automatic search is reached (src/main.py 202-206, 267-269).
search_reached(d, today_date_obj) ==
    /\ is_activity_day(today_date_obj, d.extra_activity_days)
    /\ d.last_rotation_date # today_date_obj
    /\ d.members # <<>>

\* The routine without its once-per-day check.
daily_never_done(d, today_str) == FALSE

\* src/main.py 196: the routine has already completed on this date.
daily_already_done(d, today_str) == d.last_bot_check_date = today_str

\* A start-up routine that takes every start as the first of the day.
startup_always_due(d, today_str) == TRUE

\* src/main.py 264.
startup_not_done(d, today_str) == d.last_bot_check_date # today_str

\* ---- time -----------------------------------------------------------------
Tick ==
    /\ today < MaxDay
    /\ today' = today + 1
    /\ autoRotations' = 0
    /\ UNCHANGED <<disk, data, task, allAbsentSeen>>

\* ---- daily_update_task ----------------------------------------------------
IdleTask == [pc |-> "idle", today_str |-> None]

\* One run of the task up to its end or to `await channel.send`.  `send` is
\* TRUE when a notification channel is configured and found, so that the task
\* suspends between the mutation and the save.  The result carries the machine
\* state, the task's position, and whether the run advanced the pointer or
\* searched and found nobody.
daily_update_task(m, today_date_obj, send, okP, okS) ==
    LET m0 == load_data(m)
        m1 == check_and_remove_expired_absentees(m0, today_date_obj, okP)
        idx == daily_new_duty_index(m1.data, today_date_obj)
        d2 == advance_if_due(m1.data, today_date_obj)
    IN IF daily_already_done(m1.data, today_date_obj)
       THEN [m |-> m1, task |-> IdleTask, rotated |-> FALSE, nobody |-> FALSE]
       ELSE IF idx # None /\ send
            THEN [m |-> [m1 EXCEPT !.data = d2],
                  task |-> [pc |-> "notify", today_str |-> today_date_obj],
                  rotated |-> TRUE, nobody |-> FALSE]
            ELSE [m |-> save_data([m1 EXCEPT !.data =
                            [d2 EXCEPT !.last_bot_check_date = today_date_obj]], okS),
                  task |-> IdleTask,
                  rotated |-> idx # None,
                  nobody |-> idx = None /\ search_reached(m1.data, today_date_obj)]

\* The task resumes after the notification (sent or failed, src/main.py
\* 235-242): it writes the check date into whatever `data` now is and saves.
daily_update_resume(m, today_str, okS) ==
    save_data([m EXCEPT !.data.last_bot_check_date = today_str], okS)

DailyUpdateTask(send, okP, okS) ==
    /\ task.pc = "idle"
    /\ LET r == daily_update_task(Machine, today, send, okP, okS)
       IN /\ Commit(r.m)
          /\ task' = r.task
          /\ autoRotations' = IF r.rotated THEN Bump(autoRotations) ELSE autoRotations
          /\ allAbsentSeen' = (allAbsentSeen \/ r.nobody)
    /\ UNCHANGED today

DailyUpdateResume(okS) ==
    /\ task.pc = "notify"
    /\ Commit(daily_update_resume(Machine, task.today_str, okS))
    /\ task' = IdleTask
    /\ NoRotation
    /\ UNCHANGED today

\* ---- before_daily_update_task (start-up catch-up) -------------------------
\* A start-up routine that does not prune the registry first.
before_daily_update_task_unpruned(m, today_date_obj, okP, okS) ==
    LET m1 == load_data(m)
        idx == startup_new_idx(m1.data, today_date_obj)
        d2 == IF idx # None THEN rotate_to(m1.data, idx, today_date_obj) ELSE m1.data
    IN IF startup_not_done(m1.data, today_date_obj)
       THEN [m |-> save_data([m1 EXCEPT !.data =
                       [d2 EXCEPT !.last_bot_check_date = today_date_obj]], okS),
             rotated |-> idx # None,
             nobody |-> idx = None /\ search_reached(m1.data, today_date_obj)]
       ELSE [m |-> m1, rotated |-> FALSE, nobody |-> FALSE]

before_daily_update_task(m, today_date_obj, okP, okS) ==
    LET m0 == load_data(m)
        m1 == check_and_remove_expired_absentees(m0, today_date_obj, okP)
        idx == startup_new_idx(m1.data, today_date_obj)
        d2 == IF idx # None THEN rotate_to(m1.data, idx, today_date_obj) ELSE m1.data
    IN IF startup_not_done(m1.data, today_date_obj)
       THEN [m |-> save_data([m1 EXCEPT !.data =
                       [d2 EXCEPT !.last_bot_check_date = today_date_obj]], okS),
             rotated |-> idx # None,
             nobody |-> idx = None /\ search_reached(m1.data, today_date_obj)]
       ELSE [m |-> m1, rotated |-> FALSE, nobody |-> FALSE]

BeforeDailyUpdateTask(okP, okS) ==
    /\ task.pc = "idle"
    /\ LET r == before_daily_update_task(Machine, today, okP, okS)
       IN /\ Commit(r.m)
          /\ autoRotations' = IF r.rotated THEN Bump(autoRotations) ELSE autoRotations
          /\ allAbsentSeen' = (allAbsentSeen \/ r.nobody)
    /\ UNCHANGED <<today, task>>

\* ---- read-only commands ---------------------------------------------------
\* duty_list_command's effect on the state: load, then prune as of today.
duty_list_command(m, okP) == check_and_remove_expired_absentees(load_data(m), today, okP)

TodayDuty(okP) ==
    /\ Commit(check_and_remove_expired_absentees(load_data(Machine), today, okP))
    /\ NoRotation
    /\ UNCHANGED <<today, task>>

DutyListCommand(okP) ==
    /\ Commit(duty_list_command(Machine, okP))
    /\ NoRotation
    /\ UNCHANGED <<today, task>>

ListAbsentees(okP) ==
    /\ Commit(check_and_remove_expired_absentees(load_data(Machine), today, okP))
    /\ NoRotation
    /\ UNCHANGED <<today, task>>

ListExtraActivityDays ==
    /\ Commit(load_data(Machine))
    /\ NoRotation
    /\ UNCHANGED <<today, task>>

\* ---- tomorrow_duty --------------------------------------------------------
\* The loop of src/main.py 340-359 from offset i on; the result carries the
\* machine state the loop leaves behind and what it found.
\* A lookahead that always starts one slot after the pointer, however many
\* activity days it has passed.
RECURSIVE tomorrow_loop_one_step(_, _, _, _, _, _)
tomorrow_loop_one_step(m, i, rotations_count, current_nominal_idx, today_date_obj, okP) ==
    IF i > HorizonDays
    THEN [m |-> m, date |-> None, person |-> NoPerson]
    ELSE LET check_date == today_date_obj + i
             m1 == check_and_remove_expired_absentees(m, check_date, okP)
             actual_person_idx ==
                 find_next_active_member_index((current_nominal_idx + 1) % Len(m1.data.members),
                     m1.data.members, check_date, m1.data.absentees)
         IN IF /\ is_activity_day(check_date, m1.data.extra_activity_days)
               /\ actual_person_idx # None
            THEN [m |-> m1, date |-> check_date,
                  person |-> m1.data.members[actual_person_idx + 1]]
            ELSE tomorrow_loop_one_step(m1, i + 1, rotations_count, current_nominal_idx,
                                        today_date_obj, okP)

RECURSIVE tomorrow_loop(_, _, _, _, _, _)
tomorrow_loop(m, i, rotations_count, current_nominal_idx, today_date_obj, okP) ==
    IF i > HorizonDays
    THEN [m |-> m, date |-> None, person |-> NoPerson]
    ELSE LET check_date == today_date_obj + i
             m1 == check_and_remove_expired_absentees(m, check_date, okP)
         IN IF is_activity_day(check_date, m1.data.extra_activity_days)
            THEN LET rc == rotations_count + 1
                     prospective_nominal_idx_for_this_day ==
                         (current_nominal_idx + rc) % Len(m1.data.members)
                     actual_person_idx ==
                         find_next_active_member_index(prospective_nominal_idx_for_this_day,
                             m1.data.members, check_date, m1.data.absentees)
                 IN IF actual_person_idx # None
                    THEN [m |-> m1, date |-> check_date,
                          person |-> m1.data.members[actual_person_idx + 1]]
                    ELSE tomorrow_loop(m1, i + 1, rc, current_nominal_idx, today_date_obj, okP)
            ELSE tomorrow_loop(m1, i + 1, rotations_count, current_nominal_idx,
                               today_date_obj, okP)

tomorrow_duty(m, today_date_obj, okP) ==
    LET m0 == load_data(m)
    IN IF m0.data.members = <<>>
       THEN [m |-> m0, date |-> None, person |-> NoPerson]
       ELSE tomorrow_loop(m0, 1, 0, m0.data.current_duty_index, today_date_obj, okP)

TomorrowDuty(okP) ==
    /\ Commit(tomorrow_duty(Machine, today, okP).m)
    /\ NoRotation
    /\ UNCHANGED <<today, task>>

\* ---- roster commands ------------------------------------------------------
\* An append that does not look whether the name is already on the roster.
append_all(members, new_members_list) == members \o new_members_list

RECURSIVE append_new(_, _)
append_new(members, new_members_list) ==
    IF new_members_list = <<>> THEN members
    ELSE LET member_name == Head(new_members_list)
         IN append_new(IF member_name \notin Range(members)
                       THEN Append(members, member_name) ELSE members,
                       Tail(new_members_list))

AddMembers(new_members_list, okS, okP) ==
    /\ LET m0 == load_data(Machine)
           grown == append_new(m0.data.members, new_members_list)
           added == grown # m0.data.members
           m1 == [m0 EXCEPT !.data.members = grown]
       IN IF new_members_list = <<>>
          THEN Commit(m0)
          ELSE IF added
               THEN Commit(duty_list_command(save_data(m1, okS), okP))
               ELSE Commit(m1)
    /\ NoRotation
    /\ UNCHANGED <<today, task>>

\* The range check without the shift that precedes it.
pointer_after_removal_unshifted(current_duty_index, removed_member_index, members_left) ==
    IF members_left = <<>> THEN 0
    ELSE IF current_duty_index >= Len(members_left) THEN 0 ELSE current_duty_index

\* The shift without the range check that follows it.
pointer_after_removal_unchecked(current_duty_index, removed_member_index, members_left) ==
    IF members_left = <<>> THEN 0
    ELSE IF removed_member_index < current_duty_index
         THEN current_duty_index - 1 ELSE current_duty_index

\* src/main.py 451-465: the pointer after removing the member at index
\* removed_member_index, given the roster that is left.
pointer_after_removal(current_duty_index, removed_member_index, members_left) ==
    IF members_left = <<>> THEN 0
    ELSE LET p1 == IF removed_member_index < current_duty_index
                   THEN current_duty_index - 1 ELSE current_duty_index
             p2 == IF p1 >= Len(members_left) THEN 0 ELSE p1
         IN Max2(0, Min2(p2, Len(members_left) - 1))

\* A removal that only clamps the pointer and never shifts it.
remove_member_clamp_only(m, member_name, okS, okP) ==
    LET m0 == load_data(m)
        d == m0.data
    IN IF member_name \in Range(d.members)
       THEN LET kept == DOMAIN d.absentees \ {member_name}
                left == RemoveAt(d.members, IndexOf(d.members, member_name) + 1)
                d1 == [d EXCEPT !.absentees = [n \in kept |-> d.absentees[n]],
                                !.members = left,
                                !.current_duty_index =
                                    IF left = <<>> THEN 0
                                    ELSE Min2(d.current_duty_index, Len(left) - 1)]
            IN save_data([m0 EXCEPT !.data = d1], okS)
       ELSE m0

\* A removal that leaves the member's absence entry on file.
remove_member_keeps_absence(m, member_name, okS, okP) ==
    LET m0 == load_data(m)
        d == m0.data
    IN IF member_name \in Range(d.members)
       THEN LET removed_member_index == IndexOf(d.members, member_name)
                left == RemoveAt(d.members, removed_member_index + 1)
                d1 == [d EXCEPT !.members = left,
                                !.current_duty_index =
                                    pointer_after_removal(d.current_duty_index,
                                                          removed_member_index, left)]
            IN save_data([m0 EXCEPT !.data = d1], okS)
       ELSE m0

remove_member(m, member_name, okS, okP) ==
    LET m0 == load_data(m)
        d == m0.data
    IN IF member_name \in Range(d.members)
       THEN LET kept == DOMAIN d.absentees \ {member_name}
                removed_member_index == IndexOf(d.members, member_name)
                left == RemoveAt(d.members, removed_member_index + 1)
                d1 == [d EXCEPT !.absentees = [n \in kept |-> d.absentees[n]],
                                !.members = left,
                                !.current_duty_index =
                                    pointer_after_removal(d.current_duty_index,
                                                          removed_member_index, left)]
                m1 == save_data([m0 EXCEPT !.data = d1], okS)
            IN IF left # <<>> THEN duty_list_command(m1, okP) ELSE m1
       ELSE m0

RemoveMember(member_name, okS, okP) ==
    /\ Commit(remove_member(Machine, member_name, okS, okP))
    /\ NoRotation
    /\ UNCHANGED <<today, task>>

ClearMembers(okS) ==
    /\ LET m0 == load_data(Machine)
       IN Commit(save_data([m0 EXCEPT !.data.members = <<>>,
                                      !.data.current_duty_index = 0,
                                      !.data.absentees = default_data.absentees], okS))
    /\ NoRotation
    /\ UNCHANGED <<today, task>>

\* ---- manual_update and set_current_duty -----------------------------------
\* A manual advance that searches from the head of the roster.
manual_update_from_first(m, today_date_obj, okP, okS) ==
    LET m1 == check_and_remove_expired_absentees(load_data(m), today_date_obj, okP)
        d == m1.data
        idx == find_next_active_member_index(0, d.members, today_date_obj, d.absentees)
    IN IF d.members # <<>> /\ idx # None
       THEN [m |-> save_data([m1 EXCEPT !.data = rotate_to(d, idx, today_date_obj)], okS),
             ok |-> TRUE]
       ELSE [m |-> m1, ok |-> FALSE]

\* A manual advance that honours the activity-day gate of the daily routine.
manual_update_gated(m, today_date_obj, okP, okS) ==
    LET m1 == check_and_remove_expired_absentees(load_data(m), today_date_obj, okP)
        d == m1.data
        idx == daily_new_duty_index(d, today_date_obj)
    IN IF idx # None
       THEN [m |-> save_data([m1 EXCEPT !.data = rotate_to(d, idx, today_date_obj)], okS),
             ok |-> TRUE]
       ELSE [m |-> m1, ok |-> FALSE]

manual_update(m, today_date_obj, okP, okS) ==
    LET m1 == check_and_remove_expired_absentees(load_data(m), today_date_obj, okP)
        d == m1.data
    IN IF d.members = <<>>
       THEN [m |-> m1, ok |-> FALSE]
       ELSE LET num_members == Len(d.members)
                next_nominal_idx_start_search == (d.current_duty_index + 1) % num_members
                actual_new_duty_idx ==
                    find_next_active_member_index(next_nominal_idx_start_search,
                                                  d.members, today_date_obj, d.absentees)
            IN IF actual_new_duty_idx # None
               THEN [m |-> save_data([m1 EXCEPT
                                !.data.current_duty_index = actual_new_duty_idx,
                                !.data.last_rotation_date = today_date_obj], okS),
                     ok |-> TRUE]
               ELSE [m |-> m1, ok |-> FALSE]

ManualUpdate(okP, okS) ==
    /\ Commit(manual_update(Machine, today, okP, okS).m)
    /\ NoRotation
    /\ UNCHANGED <<today, task>>

\* A set-duty that records the date and saves before it validates the member.
set_current_duty_records_first(m, member_name, today_date_obj, okP, okS) ==
    LET m1 == check_and_remove_expired_absentees(load_data(m), today_date_obj, okP)
        m2 == save_data([m1 EXCEPT !.data.last_rotation_date = today_date_obj], okS)
        d == m2.data
    IN IF member_name \notin Range(d.members)
       THEN [m |-> m2, ok |-> FALSE]
       ELSE IF is_member_absent(member_name, today_date_obj, d.absentees)
            THEN [m |-> m2, ok |-> FALSE]
            ELSE [m |-> save_data([m2 EXCEPT
                             !.data.current_duty_index = IndexOf(d.members, member_name)], okS),
                  ok |-> TRUE]

set_current_duty(m, member_name, today_date_obj, okP, okS) ==
    LET m1 == check_and_remove_expired_absentees(load_data(m), today_date_obj, okP)
        d == m1.data
    IN IF member_name \notin Range(d.members)
       THEN [m |-> m1, ok |-> FALSE]
       ELSE IF is_member_absent(member_name, today_date_obj, d.absentees)
            THEN [m |-> m1, ok |-> FALSE]
            ELSE [m |-> save_data([m1 EXCEPT
                             !.data.current_duty_index = IndexOf(d.members, member_name),
                             !.data.last_rotation_date = today_date_obj], okS),
                  ok |-> TRUE]

SetCurrentDuty(member_name, okP, okS) ==
    /\ Commit(set_current_duty(Machine, member_name, today, okP, okS).m)
    /\ NoRotation
    /\ UNCHANGED <<today, task>>

\* ---- absence commands -----------------------------------------------------
\* until_date_str is None when the option is omitted, BadDate when it does
\* not parse, else the day it parses to.
\* A registration that stores the entry before it looks at the end date.
add_absence_stores_first(m, member_name, until_date_str, today_date, okS) ==
    LET m0 == load_data(m)
        d == m0.data
        names == DOMAIN d.absentees \cup {member_name}
        m1 == save_data([m0 EXCEPT !.data.absentees =
                  [n \in names |-> IF n = member_name
                                   THEN [since |-> today_date, until |-> None]
                                   ELSE d.absentees[n]]], okS)
    IN IF member_name \notin Range(d.members)
       THEN [m |-> m0, ok |-> FALSE]
       ELSE IF until_date_str = BadDate \/ (until_date_str # None /\ until_date_str < today_date)
            THEN [m |-> m1, ok |-> FALSE]
            ELSE [m |-> save_data([m1 EXCEPT !.data.absentees[member_name].until =
                                      until_date_str], okS),
                  ok |-> TRUE]

add_absence(m, member_name, until_date_str, today_date, okS) ==
    LET m0 == load_data(m)
        d == m0.data
    IN IF member_name \notin Range(d.members)
       THEN [m |-> m0, ok |-> FALSE]
       ELSE IF until_date_str # None /\ until_date_str = BadDate
            THEN [m |-> m0, ok |-> FALSE]
            ELSE IF until_date_str # None /\ until_date_str < today_date
                 THEN [m |-> m0, ok |-> FALSE]
                 ELSE LET absence_info == [since |-> today_date, until |-> until_date_str]
                          names == DOMAIN d.absentees \cup {member_name}
                      IN [m |-> save_data([m0 EXCEPT !.data.absentees =
                                    [n \in names |-> IF n = member_name THEN absence_info
                                                     ELSE d.absentees[n]]], okS),
                          ok |-> TRUE]

AddAbsence(member_name, until_date_str, okS) ==
    /\ Commit(add_absence(Machine, member_name, until_date_str, today, okS).m)
    /\ NoRotation
    /\ UNCHANGED <<today, task>>

RemoveAbsence(member_name, okS) ==
    /\ LET m0 == load_data(Machine)
           kept == DOMAIN m0.data.absentees \ {member_name}
       IN IF member_name \in DOMAIN m0.data.absentees
          THEN Commit(save_data([m0 EXCEPT !.data.absentees =
                                    [n \in kept |-> m0.data.absentees[n]]], okS))
          ELSE Commit(m0)
    /\ NoRotation
    /\ UNCHANGED <<today, task>>

\* ---- extra activity days --------------------------------------------------
AddExtraActivityDay(date_str, okS) ==
    /\ LET m0 == load_data(Machine)
           days == m0.data.extra_activity_days
       IN IF date_str = BadDate
          THEN Commit(m0)
          ELSE IF date_str \notin Range(days)
               THEN Commit(save_data([m0 EXCEPT !.data.extra_activity_days =
                                         SortedSeq(Range(Append(days, date_str)))], okS))
               ELSE Commit(m0)
    /\ NoRotation
    /\ UNCHANGED <<today, task>>

RemoveExtraActivityDay(date_str, okS) ==
    /\ LET m0 == load_data(Machine)
           days == m0.data.extra_activity_days
       IN IF date_str = BadDate
          THEN Commit(m0)
          ELSE IF date_str \in Range(days)
               THEN Commit(save_data([m0 EXCEPT !.data.extra_activity_days =
                                         RemoveAt(days, IndexOf(days, date_str) + 1)], okS))
               ELSE Commit(m0)
    /\ NoRotation
    /\ UNCHANGED <<today, task>>

\* ---- inputs ---------------------------------------------------------------
MemberInputs == {<<>>, <<"A", "A">>, <<"B", "C">>} \cup {<<a>> : a \in Names}

\* The end dates tried for member n: omitted, unparseable, yesterday, today and
\* tomorrow; the last member of the pool is only ever registered without one.
UntilInputs(n) ==
    IF n = "C" THEN {None}
    ELSE {None, BadDate} \cup {d \in (today - 1)..(today + 1) : d >= 0}

DateInputs == ExtraCandidates \cup {BadDate}

\* The store's writes succeed under Spec; a failing write is studied by applying
\* a handler with it to the states Spec reaches.
StoreOutcomes == {TRUE}

Init ==
    /\ disk = default_data
    /\ data = default_data
    /\ today = 0
    /\ task = IdleTask
    /\ autoRotations = 0
    /\ allAbsentSeen = FALSE

Step(okP, okS) ==
    \/ \E send \in BOOLEAN : DailyUpdateTask(send, okP, okS)
    \/ DailyUpdateResume(okS)
    \/ BeforeDailyUpdateTask(okP, okS)
    \/ TodayDuty(okP)
    \/ TomorrowDuty(okP)
    \/ DutyListCommand(okP)
    \/ ListAbsentees(okP)
    \/ ListExtraActivityDays
    \/ \E ms \in MemberInputs : AddMembers(ms, okS, okP)
    \/ \E n \in Names : RemoveMember(n, okS, okP)
    \/ ClearMembers(okS)
    \/ ManualUpdate(okP, okS)
    \/ \E n \in Names : SetCurrentDuty(n, okP, okS)
    \/ \E n \in Names : \E u \in UntilInputs(n) : AddAbsence(n, u, okS)
    \/ \E n \in Names : RemoveAbsence(n, okS)
    \/ \E d \in DateInputs : AddExtraActivityDay(d, okS)
    \/ \E d \in DateInputs : RemoveExtraActivityDay(d, okS)

Next ==
    \/ Tick
    \/ \E okP \in StoreOutcomes, okS \in StoreOutcomes : Step(okP, okS)

Spec == Init /\ [][Next]_vars

\* ==== properties ===========================================================
\* What the claims speak of, stated without the code's search.

\* The date is an extra activity day, or a Monday, Wednesday or Friday that
\* is no holiday.
IsActivityDate(date, extras) ==
    \/ date \in Range(extras)
    \/ (date \notin Holidays /\ date % 7 \in {0, 2, 4})

\* The member has an absence entry that covers the date.
AbsentOn(member, date, registry) ==
    /\ member \in DOMAIN registry
    /\ (registry[member].until = None \/ date <= registry[member].until)

\* The roster indices of the members available on the date.
AvailableIdx(d, date) ==
    {i \in 0..(Len(d.members) - 1) : ~AbsentOn(d.members[i + 1], date, d.absentees)}

\* The first available index scanning circularly from start; None if there is none.
FirstAvailableFrom(start, d, date) ==
    LET avail == AvailableIdx(d, date)
        n == Len(d.members)
    IN IF avail = {} THEN None
       ELSE LET k == CHOOSE k \in 0..(n - 1) :
                       /\ (start + k) % n \in avail
                       /\ \A j \in 0..(k - 1) : (start + j) % n \notin avail
            IN (start + k) % n

\* The registry without the entries that ended before the date.
Unexpired(registry, date) ==
    [n \in {x \in DOMAIN registry : registry[x].until = None \/ registry[x].until >= date}
        |-> registry[n]]

PointerInRange(d) ==
    IF d.members = <<>> THEN d.current_duty_index = 0
    ELSE 0 <= d.current_duty_index /\ d.current_duty_index < Len(d.members)

\* The state between handlers, as the next handler finds it.
Idle == task.pc = "idle"

\* A run of the daily routine from the current state, taken to its end: a
\* run suspended at the notification is resumed at once.
DailyRun(m, send) ==
    LET r == daily_update_task(m, today, send, TRUE, TRUE)
    IN IF r.task.pc = "notify" THEN daily_update_resume(r.m, r.task.today_str, TRUE) ELSE r.m

StartupRun(m) == before_daily_update_task(m, today, TRUE, TRUE).m

\* C1: the pointer is a valid roster index, and 0 for an empty roster, in the
\* persisted snapshot and in the in-memory one, after every operation.
C1_PointerValid == PointerInRange(disk) /\ PointerInRange(data)

\* The roster became empty again after a rotation had been recorded.
C1_Witness ==
    /\ disk.members = <<>>
    /\ disk.last_rotation_date # None
    /\ disk.current_duty_index = 0

\* C2: for every date and nominal pointer, the actual duty person is the first
\* member in circular roster order from the pointer who is not absent on the
\* date, and nobody exactly when the roster is empty or everyone is absent.
C2_ActualDutyFor ==
    \A date \in 0..(MaxDay + 1) : \A p \in 0..Len(data.members) :
        LET r == get_actual_duty_person_for_date(date, p, data)
            f == FirstAvailableFrom(p, data, date)
        IN /\ (r = NoPerson) <=> (data.members = <<>> \/ AvailableIdx(data, date) = {})
           /\ r # NoPerson =>
                /\ r = data.members[f + 1]
                /\ r \in Range(data.members)
                /\ ~AbsentOn(r, date, data.absentees)

\* The scan from slot 1 skips two absent members and wraps round to slot 0.
C2_Witness ==
    /\ data.members = <<"A", "B", "C">>
    /\ DOMAIN data.absentees = {"B", "C"}
    /\ AbsentOn("B", today, data.absentees)
    /\ get_actual_duty_person_for_date(today, 1, data) = "A"

\* C3 as claimed: once a rotation is recorded for today, no operation moves
\* the persisted pointer again on that date while the roster stays the same.
C3_OncePerDateAnyOperation ==
    [][(/\ disk.last_rotation_date = today
        /\ today' = today
        /\ disk'.members = disk.members)
       => disk'.current_duty_index = disk.current_duty_index]_vars

\* C3 as amended: the automatic routines (scheduled task and start-up
\* catch-up) advance the pointer at most once per calendar date.
C3_AutoOncePerDate == autoRotations <= 1

\* The automatic advance was made today on a roster of two, and the routine
\* has completed.
C3_Witness ==
    /\ autoRotations = 1
    /\ Idle
    /\ disk.last_bot_check_date = today
    /\ disk.last_rotation_date = today
    /\ Len(disk.members) = 2

\* C4: a run of the daily routine on a date on which it has already run to
\* completion changes nothing; in particular two runs in a row on one date
\* leave the snapshot as the first run left it.
C4_DailyIdempotent ==
    Idle => \A send \in BOOLEAN :
        /\ disk.last_bot_check_date = today =>
              /\ daily_update_task(Machine, today, send, TRUE, TRUE).m = load_data(Machine)
              /\ daily_update_task(Machine, today, send, TRUE, TRUE).task = IdleTask
        /\ \A again \in BOOLEAN :
              LET first == DailyRun(Machine, send)
              IN /\ daily_update_task(first, today, again, TRUE, TRUE).m = first
                 /\ daily_update_task(first, today, again, TRUE, TRUE).task = IdleTask

\* The routine has completed today and rotated, with an absence on file.
C4_Witness ==
    /\ Idle
    /\ disk.last_bot_check_date = today
    /\ disk.last_rotation_date = today
    /\ autoRotations = 1
    /\ DOMAIN disk.absentees # {}

\* The gates of the automatic advance as C5 names them, on the snapshot loaded.
C5_Gates ==
    /\ IsActivityDate(today, disk.extra_activity_days)
    /\ disk.members # <<>>
    /\ disk.last_rotation_date # today
    /\ AvailableIdx(disk, today) # {}

\* The run has put the pointer on the first available member after the
\* current one, recorded today as the rotation date, and saved.
Advanced(m) ==
    /\ m.data.current_duty_index =
           FirstAvailableFrom((disk.current_duty_index + 1) % Len(disk.members), disk, today)
    /\ m.data.last_rotation_date = today
    /\ m.disk = m.data

\* C5: with the gates open the advance moves the pointer to the first
\* available member after the current one and records today as the rotation
\* date; and the daily routine, run on a date on which it has not yet
\* completed, carries that advance out and saves it.
C5_AdvanceWhenDue ==
    C5_Gates =>
        LET d == check_and_remove_expired_absentees(load_data(Machine), today, TRUE).data
            first == FirstAvailableFrom((disk.current_duty_index + 1) % Len(disk.members),
                                        disk, today)
        IN /\ advance_if_due(d, today).current_duty_index = first
           /\ advance_if_due(d, today).last_rotation_date = today
           /\ (Idle /\ disk.last_bot_check_date # today) => \A send \in BOOLEAN :
                 /\ Advanced(DailyRun(Machine, send))
                 /\ daily_update_task(Machine, today, send, TRUE, TRUE).rotated

\* Roster A, B, C with B absent without end: the advance has put C on duty.
C5_Witness ==
    /\ data.members = <<"A", "B", "C">>
    /\ DOMAIN data.absentees = {"B"}
    /\ data.absentees["B"].until = None
    /\ data.current_duty_index = 2
    /\ data.last_rotation_date = today
    /\ autoRotations = 1

\* The snapshot keeps the pointer and the rotation date it had.
SameRotation(m) ==
    /\ m.data.current_duty_index = disk.current_duty_index
    /\ m.data.last_rotation_date = disk.last_rotation_date
    /\ m.disk.current_duty_index = disk.current_duty_index
    /\ m.disk.last_rotation_date = disk.last_rotation_date

\* C6: an automatic run (scheduled or start-up) on an activity day on which
\* every roster member is absent leaves the pointer and the rotation date as
\* they were, so no rotation date is recorded without a rotation.
C6_AllAbsentNoRotation ==
    (/\ Idle
     /\ IsActivityDate(today, disk.extra_activity_days)
     /\ disk.members # <<>>
     /\ AvailableIdx(disk, today) = {})
    => /\ \A send \in BOOLEAN :
            /\ SameRotation(DailyRun(Machine, send))
            /\ ~daily_update_task(Machine, today, send, TRUE, TRUE).rotated
       /\ SameRotation(StartupRun(Machine))
       /\ ~before_daily_update_task(Machine, today, TRUE, TRUE).rotated

\* The routine has completed on an activity day with all three members absent.
C6_Witness ==
    /\ allAbsentSeen
    /\ Len(disk.members) = 3
    /\ AvailableIdx(disk, today) = {}
    /\ IsActivityDate(today, disk.extra_activity_days)
    /\ disk.last_bot_check_date = today
    /\ disk.last_rotation_date # today

C7_RetryGates ==
    /\ allAbsentSeen
    /\ Idle
    /\ IsActivityDate(today, disk.extra_activity_days)
    /\ disk.last_rotation_date # today
    /\ disk.members # <<>>
    /\ AvailableIdx(disk, today) # {}

C7_Retried ==
    /\ \A send \in BOOLEAN : Advanced(DailyRun(Machine, send))
    /\ Advanced(StartupRun(Machine))
    /\ before_daily_update_task(Machine, today, TRUE, TRUE).rotated

\* C7 as claimed: after an attempt that found everyone absent, every later
\* automatic run on an activity date with no rotation recorded, made when a
\* member is available, advances the pointer and records the date.
C7_AnyLaterRunRetries == C7_RetryGates => C7_Retried

\* C7 as amended: every such run on a date on which the routine has not yet
\* completed (last_bot_check_date # that date) advances the pointer.
C7_NextDateRetries == (C7_RetryGates /\ disk.last_bot_check_date # today) => C7_Retried

\* A failed attempt on an earlier date, then an advance today.
C7_Witness ==
    /\ allAbsentSeen
    /\ today > 0
    /\ autoRotations = 1
    /\ disk.last_rotation_date = today
    /\ disk.last_bot_check_date = today

\* C8: the daily routine leaves the pointer and the rotation date alone when
\* today is no activity day, or the roster is empty, or a rotation is already
\* recorded for today.
C8_ClosedGatesNoRotation ==
    (/\ Idle
     /\ \/ ~IsActivityDate(today, disk.extra_activity_days)
        \/ disk.members = <<>>
        \/ disk.last_rotation_date = today)
    => \A send \in BOOLEAN :
          /\ SameRotation(DailyRun(Machine, send))
          /\ ~daily_update_task(Machine, today, send, TRUE, TRUE).rotated

\* The routine has completed on a day that is no activity day, with a member
\* available and no rotation made.
C8_Witness ==
    /\ ~IsActivityDate(today, disk.extra_activity_days)
    /\ disk.last_bot_check_date = today
    /\ disk.last_rotation_date # today
    /\ AvailableIdx(disk, today) # {}
    /\ autoRotations = 0

\* C9: a manual advance succeeds exactly when a member is available today,
\* whatever the calendar and the recorded dates say; it then puts the pointer
\* on the first available member after the current one, records today as the
\* rotation date and saves; otherwise pointer and rotation date stay.
C9_ManualAdvance ==
    LET r == manual_update(Machine, today, TRUE, TRUE)
    IN /\ r.ok <=> (disk.members # <<>> /\ AvailableIdx(disk, today) # {})
       /\ r.ok => Advanced(r.m)
       /\ ~r.ok => SameRotation(r.m)

\* A rotation is recorded on a day that is no activity day, after the daily
\* routine had completed there: only a manual operation records one.
C9_Witness ==
    /\ ~IsActivityDate(today, disk.extra_activity_days)
    /\ disk.last_bot_check_date = today
    /\ disk.last_rotation_date = today
    /\ Len(disk.members) = 3
    /\ disk.current_duty_index = 2

\* C10 as claimed: a rejected set-duty or manual advance leaves the persisted
\* snapshot as it was.
C10_RejectedNoChange ==
    /\ \A n \in Names :
          LET r == set_current_duty(Machine, n, today, TRUE, TRUE)
          IN ~r.ok => r.m.disk = disk
    /\ LET r == manual_update(Machine, today, TRUE, TRUE)
       IN ~r.ok => r.m.disk = disk

\* C10 as amended: a rejected command changes nothing but the absence
\* registry, from which the entries that ended before today are removed.
C10_RejectedOnlyPrunes ==
    LET pruned == [disk EXCEPT !.absentees = Unexpired(disk.absentees, today)]
    IN /\ \A n \in Names :
             LET r == set_current_duty(Machine, n, today, TRUE, TRUE)
             IN ~r.ok => (r.m.disk = pruned /\ r.m.data = pruned)
       /\ LET r == manual_update(Machine, today, TRUE, TRUE)
          IN ~r.ok => (r.m.disk = pruned /\ r.m.data = pruned)

\* An entry on file ended before today, its member is still on the roster and
\* another name is not: a set-duty to that name is rejected.
C10_Witness ==
    /\ today > 0
    /\ \E n \in DOMAIN disk.absentees :
          /\ disk.absentees[n].until # None
          /\ disk.absentees[n].until < today
          /\ n \in Range(disk.members)
    /\ Names \ Range(disk.members) # {}

\* The end dates a registration may be given: omitted, unparseable, or a day.
C11_EndDates == {None, BadDate} \cup 0..(MaxDay + 1)

C11_Invalid(n, u) ==
    \/ n \notin Range(disk.members)
    \/ u = BadDate
    \/ (u # None /\ u # BadDate /\ u < today)

\* C11: an absence registration for a member not on the roster, or with an
\* unparseable end date, or with an end date before today, is rejected and
\* leaves the persisted snapshot, the registry and any entry the member
\* already has included, as it was; every other registration is accepted and
\* stores the entry.
C11_RejectedAbsenceNoChange ==
    \A n \in Names : \A u \in C11_EndDates :
        LET r == add_absence(Machine, n, u, today, TRUE)
        IN /\ C11_Invalid(n, u) <=> ~r.ok
           /\ ~r.ok => (r.m.disk = disk /\ r.m.data = disk)
           /\ r.ok => /\ r.m.disk.absentees[n] = [since |-> today, until |-> u]
                      /\ r.m.disk = r.m.data

\* A roster member has an entry on file that runs until today or later, and
\* today has a yesterday: a registration ending yesterday is rejected over it.
C11_Witness ==
    /\ today > 0
    /\ \E n \in DOMAIN disk.absentees :
          /\ n \in Range(disk.members)
          /\ disk.absentees[n].until # None
          /\ disk.absentees[n].until >= today
          /\ ~add_absence(Machine, n, today - 1, today, TRUE).ok

\* The persisted pointer after removing roster member n.
C12_After(n) == remove_member(Machine, n, TRUE, TRUE).disk.current_duty_index

\* C12 as claimed: removing a member below the pointer lowers the pointer by
\* one; removing one at or after it leaves the pointer, clamped to the last
\* index of the roster that is left when it would be out of range.
C12_ClampedToLast ==
    \A n \in Range(disk.members) :
        Len(disk.members) > 1 =>
            LET r == IndexOf(disk.members, n)
                p == disk.current_duty_index
                last == Len(disk.members) - 2
            IN IF r < p THEN C12_After(n) = p - 1
               ELSE C12_After(n) = Min2(p, last)

\* C12 as amended: removing a member below the pointer lowers the pointer by
\* one; removing one at or after it leaves the pointer, except that a pointer
\* left beyond the last index (the last member was removed with the pointer
\* on it) is reset to 0.
C12_ResetToZero ==
    \A n \in Range(disk.members) :
        Len(disk.members) > 1 =>
            LET r == IndexOf(disk.members, n)
                p == disk.current_duty_index
                last == Len(disk.members) - 2
            IN IF r < p THEN C12_After(n) = p - 1
               ELSE IF p <= last THEN C12_After(n) = p
                    ELSE C12_After(n) = 0

\* The pointer is on the last of three members: removing the first lowers it
\* to 1, removing the last resets it to 0.
C12_Witness ==
    /\ Len(disk.members) = 3
    /\ disk.current_duty_index = 2
    /\ C12_After(disk.members[1]) = 1
    /\ C12_After(disk.members[3]) = 0

NoDuplicates(s) == \A i, j \in 1..Len(s) : s[i] = s[j] => i = j

\* C13: every name occurs at most once in the roster, persisted and in
\* memory, after any sequence of operations, also after an add-members
\* command that names a member twice or names one already on the roster.
C13_NoDuplicateNames ==
    /\ NoDuplicates(disk.members)
    /\ NoDuplicates(data.members)
    /\ \A ms \in MemberInputs : NoDuplicates(append_new(disk.members, ms))

\* The whole pool is on the roster, in an order only separate commands give.
C13_Witness ==
    /\ disk.members = <<"B", "C", "A">>
    /\ append_new(disk.members, <<"A", "A">>) = disk.members

\* The dates the lookahead examines.
LookaheadDates == (today + 1)..(today + HorizonDays)

\* The activity days among them on which some roster member is not absent.
QualifyingDates ==
    {d \in LookaheadDates :
        /\ IsActivityDate(d, disk.extra_activity_days)
        /\ AvailableIdx(disk, d) # {}}

\* The number of activity days after today up to d.
ActivityDaysUpTo(d) ==
    Cardinality({e \in (today + 1)..d : IsActivityDate(e, disk.extra_activity_days)})

\* C14: the lookahead returns the earliest date after today, within the
\* horizon, that is an activity day on which some roster member is not
\* absent, with the first such member in circular order from the pointer
\* plus the number of activity days passed; and nothing when the roster is
\* empty or there is no such date.
C14_NextDutyEarliest ==
    LET r == tomorrow_duty(Machine, today, TRUE)
    IN IF disk.members = <<>> \/ QualifyingDates = {}
       THEN r.date = None /\ r.person = NoPerson
       ELSE LET d == CHOOSE x \in QualifyingDates : \A y \in QualifyingDates : x <= y
                k == ActivityDaysUpTo(d)
                start == (disk.current_duty_index + k) % Len(disk.members)
            IN /\ r.date = d
               /\ r.person = disk.members[FirstAvailableFrom(start, disk, d) + 1]

\* The next activity day has every member absent and the lookahead answers
\* with the activity day after it, two rotations on, skipping a member who is
\* still absent then.
C14_Witness ==
    LET r == tomorrow_duty(Machine, today, TRUE)
    IN /\ Len(disk.members) = 3
       /\ r.date # None
       /\ ActivityDaysUpTo(r.date) = 2
       /\ r.person # disk.members[((disk.current_duty_index + 2) % 3) + 1]

\* C15: the lookahead query leaves the persisted snapshot as it was.
C15_LookaheadReadOnly == tomorrow_duty(Machine, today, TRUE).m.disk = disk

\* The daily routine run to its end on the given date.
DailyRunOn(m, date) ==
    LET r == daily_update_task(m, date, FALSE, TRUE, TRUE)
    IN r.m

\* The machine after the daily routine has run once on each date from..to.
RECURSIVE DailyRunsThrough(_, _, _)
DailyRunsThrough(m, from, to) ==
    IF from > to THEN m
    ELSE DailyRunsThrough(DailyRunOn(m, from), from + 1, to)

\* C16: when the lookahead answers (d, person), running the daily routine once
\* on each date after today up to d advances the pointer on d for the first
\* time and leaves it on that person.
C16_MirrorsDailyAdvance ==
    LET r == tomorrow_duty(Machine, today, TRUE)
    IN r.date # None =>
         LET at(e) == DailyRunsThrough(Machine, today + 1, e).disk
         IN /\ \A e \in (today + 1)..(r.date - 1) : at(e).last_rotation_date # e
            /\ at(r.date).last_rotation_date = r.date
            /\ at(r.date).members[at(r.date).current_duty_index + 1] = r.person

\* C17: whenever the daily routine is at the notification after a rotation,
\* the rotation is already in the store: the stored rotation date, which is
\* written together with the pointer, is the date of the run.
C17_SavedBeforeNotify ==
    task.pc = "notify" => disk.last_rotation_date = task.today_str

\* C18: when the daily routine finishes after a notification that was
\* attempted, sent or failed, the store holds the rotation the run made,
\* with the date of the run as rotation date and as check date.
C18_NotifyKeepsRotation ==
    [][(task.pc = "notify" /\ task'.pc = "idle")
       => /\ disk'.last_rotation_date = task.today_str
          /\ disk'.last_bot_check_date = task.today_str]_vars

\* C19: while the daily routine is between its mutation of the snapshot in
\* memory and its save, no other handler loads or changes that snapshot.
C19_NoLoadBeforeSave ==
    [][(task.pc = "notify" /\ task'.pc = "notify") => data' = data]_vars

\* The pointer stays, or moves to the first available member after it.
C20_AtMostOneStep(m) ==
    \/ m.disk.current_duty_index = disk.current_duty_index
    \/ /\ disk.members # <<>>
       /\ m.disk.current_duty_index =
              FirstAvailableFrom((disk.current_duty_index + 1) % Len(disk.members),
                                 disk, today)
       /\ m.disk.last_rotation_date = today

\* Every automatic run from m, scheduled or start-up, leaves m as it is.
C20_NothingMore(m) ==
    /\ \A send \in BOOLEAN :
          /\ daily_update_task(m, today, send, TRUE, TRUE).m = load_data(m)
          /\ daily_update_task(m, today, send, TRUE, TRUE).task = IdleTask
    /\ before_daily_update_task(m, today, TRUE, TRUE).m = load_data(m)

\* C20: on a date for which no check is recorded, whatever dates were
\* missed before, the first automatic run (scheduled or start-up) records the
\* check for that date and moves the pointer by at most one rotation step,
\* and every further automatic run on that date changes nothing, straight
\* after it or after any commands given in between.
C20_CatchUpOnce ==
    Idle =>
        /\ disk.last_bot_check_date # today =>
              \A first \in {DailyRun(Machine, TRUE), DailyRun(Machine, FALSE),
                             StartupRun(Machine)} :
                  /\ first.disk.last_bot_check_date = today
                  /\ first.disk = first.data
                  /\ C20_AtMostOneStep(first)
                  /\ C20_NothingMore(first)
        /\ disk.last_bot_check_date = today => C20_NothingMore(Machine)

\* No run was made on day 0; on day 1 the start-up run advances the pointer.
C20_Witness ==
    /\ Idle
    /\ today = 1
    /\ disk.last_bot_check_date = None
    /\ Len(disk.members) = 3
    /\ before_daily_update_task(Machine, today, TRUE, TRUE).rotated
    /\ StartupRun(Machine).disk.current_duty_index # disk.current_duty_index

\* C21: a command whose save fails reports no success and leaves what the
\* next load returns as it was before the command; a command whose save
\* succeeds leaves the mutated snapshot for the next load.
C21_SaveFailureAborts ==
    /\ \A n \in Names : \A u \in C11_EndDates :
          /\ LET r == add_absence(Machine, n, u, today, FALSE)
             IN ~r.ok /\ load_data(r.m).data = disk
          /\ LET r == add_absence(Machine, n, u, today, TRUE)
             IN r.ok => load_data(r.m).data = r.m.data
    /\ \A n \in Names :
          /\ LET r == set_current_duty(Machine, n, today, TRUE, FALSE)
             IN ~r.ok
          /\ LET r == set_current_duty(Machine, n, today, TRUE, TRUE)
             IN r.ok => load_data(r.m).data = r.m.data
    /\ LET r == manual_update(Machine, today, TRUE, FALSE)
       IN ~r.ok

\* The explicit ways an absence of n ends: it is cleared or registered anew,
\* or n leaves the roster.
C22_Ended(n) ==
    \/ RemoveAbsence(n, TRUE)
    \/ \E u \in UntilInputs(n) : AddAbsence(n, u, TRUE)
    \/ n \notin Range(disk'.members)

\* C22: an absence entry that covers the date after a step is still on file,
\* unchanged, after the step, unless the step cleared or re-registered it or
\* took the member off the roster.
C22_AbsenceHonoured ==
    [][\A n \in DOMAIN disk.absentees :
          (AbsentOn(n, today', disk.absentees) /\ ~C22_Ended(n))
          => /\ n \in DOMAIN disk'.absentees
             /\ disk'.absentees[n] = disk.absentees[n]]_vars

\* C23: every member with an absence entry is on the roster, in the store
\* and in memory.
C23_AbsenteesInRoster ==
    /\ DOMAIN disk.absentees \subseteq Range(disk.members)
    /\ DOMAIN data.absentees \subseteq Range(data.members)

\* Two members have entries; removing one of them leaves the other's entry
\* and a roster it belongs to.
C23_Witness ==
    \E n \in DOMAIN disk.absentees :
        LET after == remove_member(Machine, n, TRUE, TRUE).disk
        IN /\ DOMAIN after.absentees # {}
           /\ n \notin DOMAIN after.absentees
           /\ n \notin Range(after.members)
           /\ Len(disk.members) = 3

\* C24: from the same snapshot on the same date the start-up routine and the
\* scheduled routine, each run to its end, leave the same pointer, rotation
\* date, check date and absence registry, and the same roster and extra
\* dates with them, whether or not the scheduled run sends a notification.
C24_StartupEqualsDaily ==
    Idle => \A send \in BOOLEAN :
        /\ DailyRun(Machine, send).disk = StartupRun(Machine).disk
        /\ daily_update_task(Machine, today, send, TRUE, TRUE).rotated
              = before_daily_update_task(Machine, today, TRUE, TRUE).rotated

\* An entry on file has ended before today and a rotation is due: each
\* routine prunes the entry and advances the pointer.
C24_Witness ==
    /\ Idle
    /\ disk.last_bot_check_date # today
    /\ \E n \in DOMAIN disk.absentees :
          disk.absentees[n].until # None /\ disk.absentees[n].until < today
    /\ before_daily_update_task(Machine, today, TRUE, TRUE).rotated
    /\ StartupRun(Machine).disk # disk

\* C25: removing a member other than the one the pointer is on leaves the
\* pointer on the same member.
C25_DutyMemberKept ==
    \A y \in Range(disk.members) :
        LET x == disk.members[disk.current_duty_index + 1]
            after == remove_member(Machine, y, TRUE, TRUE).disk
        IN y # x => after.members[after.current_duty_index + 1] = x

\* The pointer is on the last of three members: removing the first or the
\* second moves the pointer down with the member.
C25_Witness ==
    /\ Len(disk.members) = 3
    /\ disk.current_duty_index = 2
    /\ remove_member(Machine, disk.members[1], TRUE, TRUE).disk.current_duty_index = 1
    /\ remove_member(Machine, disk.members[2], TRUE, TRUE).disk.members[2] = disk.members[3]

\* The machine after k manual advances in a row.
RECURSIVE ManualAdvances(_, _)
ManualAdvances(m, k) ==
    IF k = 0 THEN m
    ELSE manual_update(ManualAdvances(m, k - 1), today, TRUE, TRUE).m

\* The coming activity days on which the daily routine is due, in order.
DueDates ==
    SortedSeq({d \in today..(today + 2 * HorizonDays) :
                 /\ IsActivityDate(d, disk.extra_activity_days)
                 /\ d # disk.last_rotation_date
                 /\ d # disk.last_bot_check_date})

\* The machine after the daily routine has run on the first k of the dates.
RECURSIVE DailyRunsOn(_, _, _)
DailyRunsOn(m, dates, k) ==
    IF k = 0 THEN m
    ELSE DailyRunOn(DailyRunsOn(m, dates, k - 1), dates[k])

\* C26: with a roster of n members and no absence entries, the i-th of n
\* advances in a row, manual ones today or automatic ones on successive
\* activity days, puts the pointer i slots after its start in roster order,
\* so that n advances visit every index once and return to the start.
C26_RoundRobin ==
    (disk.members # <<>> /\ DOMAIN disk.absentees = {}) =>
        LET n == Len(disk.members)
            p == disk.current_duty_index
        IN \A i \in 1..n :
              /\ ManualAdvances(Machine, i).disk.current_duty_index = (p + i) % n
              /\ ManualAdvances(Machine, i).disk.last_rotation_date = today
              /\ i <= Len(DueDates) =>
                    /\ DailyRunsOn(Machine, DueDates, i).disk.current_duty_index = (p + i) % n
                    /\ DailyRunsOn(Machine, DueDates, i).disk.last_rotation_date = DueDates[i]

\* Three members, nobody absent, the pointer in the middle of the roster and
\* three activity days ahead: the third advance wraps round to the start.
C26_Witness ==
    /\ Len(disk.members) = 3
    /\ DOMAIN disk.absentees = {}
    /\ disk.current_duty_index = 1
    /\ Len(DueDates) >= 3
    /\ DailyRunsOn(Machine, DueDates, 2).disk.current_duty_index = 0
    /\ ManualAdvances(Machine, 3).disk.current_duty_index = 1

====
